---- MODULE Spec2Model ----
(***************************************************************************)
(* Node-connectivity layer of warp.fem function spaces                     *)
(* (warp/fem/space/topology.py): SpaceTopology, TraceSpaceTopology and     *)
(* DiscontinuousSpaceTopologyMixin.                                        *)
(*                                                                         *)
(* Topology objects live in a heap (a sequence; an object's identity is    *)
(* its position).  Geometries are external, immutable collaborators: they  *)
(* are drawn by Init and never change.  The bulk node-table builder        *)
(* element_node_indices() is a kernel launch with one lane per table row.  *)
(***************************************************************************)
EXTENDS Integers, Sequences, FiniteSets, TLC

VARIABLES geo, heap, kernel

vars == <<geo, heap, kernel>>

----------------------------------------------------------------------------
(* Bounds *)

MaxTopos == 4
MaxCells == 2
MaxSides == 2
MaxNpe == 2

(* The geometries topologies are built over, and their embedding dimension. *)
GeomIds == {1, 2}

GeoDimension == [g \in GeomIds |-> g + 1]

(* The constructor calls of the object-level specification: the __name__  *)
(* of a concrete class combining the discontinuous mixin with              *)
(* SpaceTopology, a geometry, and nodes_per_element.                       *)
Ctors ==
    { <<"DiscA", 1, 1>>, <<"DiscA", 1, 2>>, <<"DiscB", 1, 1>>,
      <<"DiscA", 2, 1>>, <<"DiscB", 2, 2>> }

TraceClassName == "TraceSpaceTopology"

NoTopo == 0

----------------------------------------------------------------------------
(* Geometry provider: cells 0..cell_count-1, sides 0..side_count-1, and for *)
(* each side its inner and outer cell.                                      *)

Meshes ==
    UNION { UNION { { [cell_count |-> c, side_count |-> s, inner |-> i, outer |-> o] :
                        i \in [1..s -> 0..(c - 1)], o \in [1..s -> 0..(c - 1)] } :
                    s \in 1..MaxSides } :
            c \in 1..MaxCells }

cell_count(g) == geo[g].cell_count

side_count(g) == geo[g].side_count

CellArgValue(g) == [geo |-> g, of |-> "cell"]

SideArgValue(g) == [geo |-> g, of |-> "side"]

side_to_cell_arg(args) == [args EXCEPT !.of = "cell"]

side_inner_cell_index(args, s) == geo[args.geo].inner[s + 1]

side_outer_cell_index(args, s) == geo[args.geo].outer[s + 1]

(* wp.select(cond, arg1, arg2): arg1 when cond is false, arg2 otherwise. *)
select(cond, arg1, arg2) == IF cond THEN arg2 ELSE arg1

----------------------------------------------------------------------------
(* Objects *)

IsTrace(t) == heap[t].cls = TraceClassName

Topos == 1..Len(heap)

(* SpaceTopology.__init__ (through the mixin's __init__ for concrete classes) *)
NewSpaceTopology(cls, g, nodes_per_element) ==
    [cls |-> cls, _geometry |-> g, dimension |-> geo[g].dimension,
     NODES_PER_ELEMENT |-> nodes_per_element, _topo |-> NoTopo]

(* Mutant: the trace keeps the parent's nodes per element *)
NewTraceSpaceTopology_SameNpe(topo) ==
    [NewSpaceTopology(TraceClassName, heap[topo]._geometry, heap[topo].NODES_PER_ELEMENT)
        EXCEPT !.dimension = heap[topo].dimension - 1, !._topo = topo]

(* TraceSpaceTopology.__init__ *)
NewTraceSpaceTopology(topo) ==
    [NewSpaceTopology(TraceClassName, heap[topo]._geometry, 2 * heap[topo].NODES_PER_ELEMENT)
        EXCEPT !.dimension = heap[topo].dimension - 1, !._topo = topo]

(* The number of TraceSpaceTopology wrappers around the non-trace root. *)
RECURSIVE TraceDepth(_)
TraceDepth(t) == IF IsTrace(t) THEN 1 + TraceDepth(heap[t]._topo) ELSE 0

(* SpaceTopology.name / TraceSpaceTopology.name *)
RECURSIVE name(_)
name(t) ==
    IF IsTrace(t)
    THEN name(heap[t]._topo) \o "_Trace"
    ELSE heap[t].cls \o "_" \o ToString(heap[t].NODES_PER_ELEMENT)

(* SpaceTopology.full_space_topology / TraceSpaceTopology.full_space_topology *)
full_space_topology(t) == IF IsTrace(t) THEN heap[t]._topo ELSE t

(* node_count: DiscontinuousSpaceTopologyMixin / TraceSpaceTopology *)
RECURSIVE node_count(_)
node_count(t) ==
    IF IsTrace(t)
    THEN node_count(heap[t]._topo)
    ELSE cell_count(heap[t]._geometry) * heap[t].NODES_PER_ELEMENT

----------------------------------------------------------------------------
(* Equality and derivation.  A Python bool is "True" or "False"; an        *)
(* evaluation that raises yields the name of the exception.                *)

PyBool(b) == IF b THEN "True" ELSE "False"

(* Mutant: the geometries are not compared *)
SpaceTopologyEq_NameOnly(a, b) == PyBool(name(a) = name(b))

(* SpaceTopology.__eq__ *)
SpaceTopologyEq(a, b) ==
    PyBool(heap[a]._geometry = heap[b]._geometry /\ name(a) = name(b))

(* a == b: the __eq__ of a's class; TraceSpaceTopology.__eq__ reads        *)
(* other._topo, an attribute only trace topologies have.                   *)
RECURSIVE Eq(_, _)
Eq(a, b) ==
    IF IsTrace(a)
    THEN IF IsTrace(b) THEN Eq(heap[a]._topo, heap[b]._topo) ELSE "AttributeError"
    ELSE SpaceTopologyEq(a, b)

(* Mutant: the trace branch compares self, not its full space topology *)
is_derived_from_NoFullSpace(a, b) ==
    IF heap[a].dimension = heap[b].dimension
    THEN Eq(a, b)
    ELSE IF heap[a].dimension + 1 = heap[b].dimension
         THEN Eq(a, b)
         ELSE "False"

(* SpaceTopology.is_derived_from *)
is_derived_from(a, b) ==
    IF heap[a].dimension = heap[b].dimension
    THEN Eq(a, b)
    ELSE IF heap[a].dimension + 1 = heap[b].dimension
         THEN Eq(full_space_topology(a), b)
         ELSE "False"


----------------------------------------------------------------------------
(* Node indices *)

(* The elements a topology indexes: sides for a trace (ElementArg is the   *)
(* geometry's SideArg), cells otherwise.                                   *)
Elements(t) ==
    IF IsTrace(t)
    THEN 0..(side_count(heap[t]._geometry) - 1)
    ELSE 0..(cell_count(heap[t]._geometry) - 1)

Slots(t) == 0..(heap[t].NODES_PER_ELEMENT - 1)

(* SpaceTopology.topo_arg_value; a trace takes over its parent's *)
topo_arg_value(t) == [_ |-> 0]

(* The geometry argument of a topology's elements *)
ElementArgValue(t) ==
    IF IsTrace(t) THEN SideArgValue(heap[t]._geometry) ELSE CellArgValue(heap[t]._geometry)

(* Mutant: the two values of wp.select are swapped *)
inner_cell_index_Swapped(t, args, element_index, node_index_in_elt) ==
    LET NODES_PER_ELEMENT == heap[heap[t]._topo].NODES_PER_ELEMENT
        index_in_inner_cell == select(node_index_in_elt < NODES_PER_ELEMENT, node_index_in_elt, -1)
    IN  <<side_inner_cell_index(args, element_index), index_in_inner_cell>>

(* TraceSpaceTopology._make_inner_cell_index *)
inner_cell_index(t, args, element_index, node_index_in_elt) ==
    LET NODES_PER_ELEMENT == heap[heap[t]._topo].NODES_PER_ELEMENT
        index_in_inner_cell == select(node_index_in_elt < NODES_PER_ELEMENT, -1, node_index_in_elt)
    IN  <<side_inner_cell_index(args, element_index), index_in_inner_cell>>

(* TraceSpaceTopology._make_outer_cell_index *)
outer_cell_index(t, args, element_index, node_index_in_elt) ==
    LET NODES_PER_ELEMENT == heap[heap[t]._topo].NODES_PER_ELEMENT
    IN  <<side_outer_cell_index(args, element_index), node_index_in_elt - NODES_PER_ELEMENT>>

(* Mutant: the inner half takes slot n as well *)
neighbor_cell_index_OffByOne(t, args, element_index, node_index_in_elt) ==
    LET NODES_PER_ELEMENT == heap[heap[t]._topo].NODES_PER_ELEMENT
    IN  IF node_index_in_elt <= NODES_PER_ELEMENT
        THEN <<side_inner_cell_index(args, element_index), node_index_in_elt>>
        ELSE <<side_outer_cell_index(args, element_index), node_index_in_elt - NODES_PER_ELEMENT>>

(* TraceSpaceTopology._make_neighbor_cell_index *)
neighbor_cell_index(t, args, element_index, node_index_in_elt) ==
    LET NODES_PER_ELEMENT == heap[heap[t]._topo].NODES_PER_ELEMENT
    IN  IF node_index_in_elt < NODES_PER_ELEMENT
        THEN <<side_inner_cell_index(args, element_index), node_index_in_elt>>
        ELSE <<side_outer_cell_index(args, element_index), node_index_in_elt - NODES_PER_ELEMENT>>

(* Mutant: the stride multiplies the slot instead of the element *)
disc_element_node_index_Strided(t, elt_arg, topo_arg, element_index, node_index_in_elt) ==
    element_index + heap[t].NODES_PER_ELEMENT * node_index_in_elt

(* DiscontinuousSpaceTopologyMixin._make_element_node_index *)
disc_element_node_index(t, elt_arg, topo_arg, element_index, node_index_in_elt) ==
    heap[t].NODES_PER_ELEMENT * element_index + node_index_in_elt

(* Mutant: the parent is given the side's slot, not the index in the cell *)
trace_element_node_index_RawSlot(t, geo_side_arg, topo_arg, element_index, node_index_in_elt) ==
    LET nb == neighbor_cell_index(t, geo_side_arg, element_index, node_index_in_elt)
        geo_cell_arg == side_to_cell_arg(geo_side_arg)
    IN  <<geo_cell_arg, topo_arg, nb[1], node_index_in_elt>>

(* TraceSpaceTopology._make_element_node_index: the arguments of the call  *)
(* it makes to the parent's element_node_index.                            *)
trace_element_node_index(t, geo_side_arg, topo_arg, element_index, node_index_in_elt) ==
    LET nb == neighbor_cell_index(t, geo_side_arg, element_index, node_index_in_elt)
        geo_cell_arg == side_to_cell_arg(geo_side_arg)
    IN  <<geo_cell_arg, topo_arg, nb[1], nb[2]>>

(* self.element_node_index, as bound by the constructors *)
RECURSIVE element_node_index(_, _, _, _, _)
element_node_index(t, geo_arg, topo_arg, element_index, node_index_in_elt) ==
    IF IsTrace(t)
    THEN LET call == trace_element_node_index(t, geo_arg, topo_arg, element_index, node_index_in_elt)
         IN  element_node_index(heap[t]._topo, call[1], call[2], call[3], call[4])
    ELSE disc_element_node_index(t, geo_arg, topo_arg, element_index, node_index_in_elt)

----------------------------------------------------------------------------
(* Actions *)

Construct(cls, g, n) ==
    /\ Len(heap) < MaxTopos
    /\ heap' = Append(heap, NewSpaceTopology(cls, g, n))
    /\ UNCHANGED <<geo, kernel>>

Trace(t) ==
    /\ Len(heap) < MaxTopos
    /\ heap' = Append(heap, NewTraceSpaceTopology(t))
    /\ UNCHANGED <<geo, kernel>>

Idle == [state |-> "idle", topo |-> NoTopo, array |-> <<>>, pc |-> <<>>, oob |-> <<>>]

(* Geometries of different cell counts, each with a single boundary side; *)
(* no topology has been constructed.                                      *)
Init ==
    /\ geo \in { [g \in GeomIds |->
                    [dimension |-> GeoDimension[g], cell_count |-> cc + g - 1, side_count |-> 1,
                     inner |-> <<0>>, outer |-> <<0>>]] : cc \in 1..MaxCells }
    /\ heap = <<>>
    /\ kernel = Idle

Next ==
    \/ \E c \in Ctors : Construct(c[1], c[2], c[3])
    \/ \E t \in Topos : Trace(t)

Spec == Init /\ [][Next]_vars

----------------------------------------------------------------------------
(* element_node_indices(): borrow a (cell_count, NODES_PER_ELEMENT) array,  *)
(* launch one lane per row, each running the loop over n.                   *)

(* Content of a borrowed array before any lane writes it *)
Uninitialized == -1

(* What a read past the end of the geometry's side arrays may return *)
UndefinedInts == {0, 1}

Rows == DOMAIN kernel.array

Launch(t) ==
    /\ kernel.state = "idle"
    /\ LET g == heap[t]._geometry
           shape0 == 0..(cell_count(g) - 1)
           beyond == IF IsTrace(t) THEN shape0 \ Elements(t) ELSE {}
       IN  \E oob \in [beyond -> UndefinedInts \X UndefinedInts] :
              kernel' = [state |-> "running", topo |-> t,
                         array |-> [e \in shape0 |-> [n \in Slots(t) |-> Uninitialized]],
                         pc |-> [e \in shape0 |-> 0],
                         oob |-> oob]
    /\ UNCHANGED <<geo, heap>>

(* The value lane element_index computes for slot n.  The kernel passes the *)
(* geometry's cell argument value; a row that is no side of the geometry    *)
(* reads the side arrays out of bounds.                                     *)
LaneValue(element_index, n) ==
    LET t == kernel.topo
        geo_cell_arg == CellArgValue(heap[t]._geometry)
        topo_arg == topo_arg_value(t)
    IN  IF element_index \in Elements(t)
        THEN element_node_index(t, geo_cell_arg, topo_arg, element_index, n)
        ELSE LET N == heap[heap[t]._topo].NODES_PER_ELEMENT
                 cell == kernel.oob[element_index]
             IN  IF n < N
                 THEN element_node_index(heap[t]._topo, geo_cell_arg, topo_arg, cell[1], n)
                 ELSE element_node_index(heap[t]._topo, geo_cell_arg, topo_arg, cell[2], n - N)

(* One iteration of the loop "for n in range(NODES_PER_ELEMENT)" of a lane *)
LaneStep(element_index) ==
    /\ kernel.state = "running"
    /\ kernel.pc[element_index] < heap[kernel.topo].NODES_PER_ELEMENT
    /\ LET n == kernel.pc[element_index]
       IN  kernel' = [kernel EXCEPT !.array[element_index][n] = LaneValue(element_index, n),
                                    !.pc[element_index] = n + 1]
    /\ UNCHANGED <<geo, heap>>

(* All lanes are done: the temporary is returned to the caller *)
Return ==
    /\ kernel.state = "running"
    /\ \A e \in Rows : kernel.pc[e] = heap[kernel.topo].NODES_PER_ELEMENT
    /\ kernel' = [kernel EXCEPT !.state = "returned"]
    /\ UNCHANGED <<geo, heap>>

(* The caller releases the temporary *)
Release ==
    /\ kernel.state = "returned"
    /\ kernel' = Idle
    /\ UNCHANGED <<geo, heap>>

(* Every geometry carries the drawn mesh; nothing is constructed yet *)
InitMesh ==
    /\ geo \in { [g \in GeomIds |->
                    [dimension |-> GeoDimension[g], cell_count |-> m.cell_count,
                     side_count |-> m.side_count, inner |-> m.inner, outer |-> m.outer]] :
                 m \in Meshes }
    /\ heap = <<>>
    /\ kernel = Idle

(* A discontinuous topology over the drawn mesh, then its trace *)
NextIndex ==
    \/ \E g \in GeomIds, n \in 1..MaxNpe : heap = <<>> /\ Construct("DiscA", g, n)
    \/ Len(heap) = 1 /\ Trace(1)

SpecIndex == InitMesh /\ [][NextIndex]_vars

NextKernel ==
    \/ \E n \in 1..MaxNpe : heap = <<>> /\ Construct("DiscA", 1, n)
    \/ Len(heap) = 1 /\ Trace(1)
    \/ \E t \in Topos : Launch(t)
    \/ \E e \in Rows : LaneStep(e)
    \/ Return
    \/ Release

SpecKernel == InitMesh /\ [][NextKernel]_vars

----------------------------------------------------------------------------
(* Vocabulary of the claims *)

Parent(t) == heap[t]._topo

Traces == { t \in Topos : IsTrace(t) }

NonTraces == { t \in Topos : ~IsTrace(t) }

(* The non-trace topology at the bottom of a chain of traces. *)
RECURSIVE Root(_)
Root(t) == IF IsTrace(t) THEN Root(Parent(t)) ELSE t

(* What a structural name encodes: class, nodes per element, trace marks. *)
SameStructure(a, b) ==
    /\ TraceDepth(a) = TraceDepth(b)
    /\ heap[Root(a)].cls = heap[Root(b)].cls
    /\ heap[Root(a)].NODES_PER_ELEMENT = heap[Root(b)].NODES_PER_ELEMENT

SameGeometry(a, b) == heap[a]._geometry = heap[b]._geometry

----------------------------------------------------------------------------
(* C5: a == b never raises, for any two topologies in either operand      *)
(* order, and is False whenever the geometries or the structural names    *)
(* differ.                                                                *)
C5_EqualityTotal ==
    \A a \in Topos, b \in Topos :
        /\ Eq(a, b) \in {"True", "False"}
        /\ (~SameGeometry(a, b) \/ name(a) # name(b)) => Eq(a, b) = "False"

(* C6: the relation "a == b is True" is reflexive and symmetric and holds *)
(* exactly for topologies with the same geometry object and the same      *)
(* structural name; same class, geometry and nodes per element give equal *)
(* topologies; two traces are equal exactly when their parents are.       *)
C6_EqualityRelation ==
    LET nm == [t \in Topos |-> name(t)]
        eq == [a \in Topos |-> [b \in Topos |-> Eq(a, b) = "True"]]
    IN  \A a \in Topos, b \in Topos :
            /\ eq[a][a]
            /\ eq[a][b] <=> eq[b][a]
            /\ eq[a][b] <=> (SameGeometry(a, b) /\ nm[a] = nm[b])
            /\ (nm[a] = nm[b]) <=> SameStructure(a, b)
            /\ (a \in NonTraces /\ b \in NonTraces /\ SameGeometry(a, b) /\ SameStructure(a, b))
                  => eq[a][b]
            /\ (a \in Traces /\ b \in Traces) => (eq[a][b] <=> eq[Parent(a)][Parent(b)])

(* Two traces of two independently constructed, equal parents compare     *)
(* equal, next to a third topology that differs from them.                *)
C6_Witness ==
    \E a \in Traces, b \in Traces, c \in Topos :
        /\ Parent(a) # Parent(b)
        /\ Parent(a) \in NonTraces /\ Parent(b) \in NonTraces
        /\ Eq(a, b) = "True"
        /\ Eq(Parent(a), c) = "False"

(* C7: is_derived_from is True of (t, t) and of (trace, parent), False of *)
(* (parent, trace), and True of (a, b) exactly when a == b, or            *)
(* a.dimension + 1 == b.dimension and a.full_space_topology() == b.       *)
C7_IsDerivedFrom ==
    /\ \A t \in Topos : is_derived_from(t, t) = "True"
    /\ \A tr \in Traces :
          /\ is_derived_from(tr, Parent(tr)) = "True"
          /\ is_derived_from(Parent(tr), tr) = "False"
    /\ \A a \in Topos, b \in Topos :
          (is_derived_from(a, b) = "True") <=>
              \/ Eq(a, b) = "True"
              \/ /\ heap[a].dimension + 1 = heap[b].dimension
                 /\ Eq(full_space_topology(a), b) = "True"

(* A trace of a trace next to its parent and to a non-trace topology of   *)
(* its parent's dimension over another geometry.                          *)
C7_Witness ==
    \E tr \in Traces, q \in NonTraces :
        /\ Parent(tr) \in Traces
        /\ heap[q].dimension = heap[Parent(tr)].dimension
        /\ is_derived_from(tr, Parent(tr)) = "True"
        /\ is_derived_from(Parent(tr), q) = "AttributeError"

(* C8: full_space_topology() is the topology itself for a non-trace       *)
(* topology, the parent for a trace, and in every case a non-trace        *)
(* topology.                                                              *)
C8_FullSpaceNormalizes ==
    \A t \in Topos :
        /\ t \in NonTraces =>
              /\ full_space_topology(t) = t
              /\ full_space_topology(full_space_topology(t)) = full_space_topology(t)
        /\ t \in Traces => full_space_topology(t) = Parent(t)
        /\ full_space_topology(t) \in NonTraces

(* C9: every trace has its parent's node count, twice its parent's nodes  *)
(* per element and its parent's dimension minus one, and no step changes  *)
(* the node count, nodes per element or dimension of an existing topology.*)
C9_TraceShape ==
    \A tr \in Traces :
        /\ node_count(tr) = node_count(Parent(tr))
        /\ node_count(tr) = cell_count(heap[Root(tr)]._geometry) * heap[Root(tr)].NODES_PER_ELEMENT
        /\ heap[tr].NODES_PER_ELEMENT = 2 * heap[Parent(tr)].NODES_PER_ELEMENT
        /\ heap[tr].dimension = heap[Parent(tr)].dimension - 1

C9_ParentUnchanged ==
    \A t \in Topos :
        /\ t \in DOMAIN heap'
        /\ heap'[t].NODES_PER_ELEMENT = heap[t].NODES_PER_ELEMENT
        /\ heap'[t].dimension = heap[t].dimension
        /\ node_count(t)' = node_count(t)

C9_TraceInvariants == [][C9_TraceShape' /\ C9_ParentUnchanged]_vars

(* A trace of a trace has been built over a parent with 2 nodes per       *)
(* element.                                                               *)
C9_Witness ==
    \E tr \in Traces :
        /\ Parent(tr) \in Traces
        /\ heap[Root(tr)].NODES_PER_ELEMENT = 2
        /\ heap[tr].NODES_PER_ELEMENT = 8

----------------------------------------------------------------------------
(* Claims about node indices (SpecIndex) and the bulk table (SpecKernel) *)

(* A direct call of t's element_node_index on one of its elements *)
DirectCall(t, e, n) == element_node_index(t, ElementArgValue(t), topo_arg_value(t), e, n)

(* C1: for a trace over a parent with n nodes per element, every side s   *)
(* and slot in [0, 2n): the trace's node index is the parent's at         *)
(* (inner cell of s, slot) when slot < n and at (outer cell of s,         *)
(* slot - n) otherwise, the parent being called with the geometry's       *)
(* side_to_cell_arg of the side argument.                                 *)
C1_TraceDelegates ==
    \A tr \in Traces : \A s \in Elements(tr), slot \in Slots(tr) :
        LET p == Parent(tr)
            n == heap[p].NODES_PER_ELEMENT
            side_arg == SideArgValue(heap[tr]._geometry)
            topo_arg == topo_arg_value(tr)
            cell_arg == side_to_cell_arg(side_arg)
            passed == trace_element_node_index(tr, side_arg, topo_arg, s, slot)
        IN  /\ heap[tr].NODES_PER_ELEMENT = 2 * n
            /\ passed[1] = cell_arg
            /\ element_node_index(tr, side_arg, topo_arg, s, slot) =
                  IF slot < n
                  THEN element_node_index(p, cell_arg, topo_arg, side_inner_cell_index(side_arg, s), slot)
                  ELSE element_node_index(p, cell_arg, topo_arg, side_outer_cell_index(side_arg, s), slot - n)

(* A trace over a parent with 2 nodes per element and a side between two  *)
(* different cells: slot 1 is the inner cell's node 1, slot 2 the outer   *)
(* cell's node 0.                                                         *)
C1_Witness ==
    \E tr \in Traces : \E s \in Elements(tr) :
        LET side_arg == SideArgValue(heap[tr]._geometry)
            i == side_inner_cell_index(side_arg, s)
            o == side_outer_cell_index(side_arg, s)
        IN  /\ heap[Parent(tr)].NODES_PER_ELEMENT = 2
            /\ i # o
            /\ DirectCall(tr, s, 1) = DirectCall(Parent(tr), i, 1)
            /\ DirectCall(tr, s, 2) = DirectCall(Parent(tr), o, 0)
            /\ DirectCall(tr, s, 2) # DirectCall(Parent(tr), i, 0)

(* C2: for a discontinuous topology and for its trace, over a geometry    *)
(* whose sides name cells in [0, cell_count), every element e and slot n  *)
(* in [0, nodes_per_element) has element_node_index(e, n) in              *)
(* [0, node_count()).                                                     *)
C2_IndexInRange ==
    \A t \in Topos : \A e \in Elements(t), n \in Slots(t) :
        /\ DirectCall(t, e, n) >= 0
        /\ DirectCall(t, e, n) < node_count(t)

(* The last slot of a side whose outer cell is the last of two cells is   *)
(* the last node.                                                         *)
C2_Witness ==
    \E tr \in Traces : \E s \in Elements(tr) :
        /\ cell_count(heap[tr]._geometry) = 2
        /\ side_outer_cell_index(SideArgValue(heap[tr]._geometry), s) = 1
        /\ DirectCall(tr, s, heap[tr].NODES_PER_ELEMENT - 1) = node_count(tr) - 1
        /\ DirectCall(Parent(tr), 0, 0) = 0

(* C3: a discontinuous topology with N nodes per element has              *)
(* element_node_index(e, n) = N*e + n and node_count() = cell_count()*N;  *)
(* equal indices at a slot mean the same element, and no node belongs to  *)
(* two elements.                                                          *)
C3_DiscontinuousNumbering ==
    \A t \in NonTraces :
        LET N == heap[t].NODES_PER_ELEMENT
        IN  /\ node_count(t) = cell_count(heap[t]._geometry) * N
            /\ \A e \in Elements(t), n \in Slots(t) : DirectCall(t, e, n) = N * e + n
            /\ \A e1 \in Elements(t), e2 \in Elements(t), n \in Slots(t) :
                  DirectCall(t, e1, n) = DirectCall(t, e2, n) => e1 = e2
            /\ \A e1 \in Elements(t), e2 \in Elements(t), n1 \in Slots(t), n2 \in Slots(t) :
                  DirectCall(t, e1, n1) = DirectCall(t, e2, n2) => e1 = e2

(* Two cells of two nodes each: cell 1 slot 1 is node 3 of 4. *)
C3_Witness ==
    \E t \in NonTraces :
        /\ heap[t].NODES_PER_ELEMENT = 2
        /\ cell_count(heap[t]._geometry) = 2
        /\ DirectCall(t, 1, 1) = 3
        /\ node_count(t) = 4

(* C4: when element_node_indices() has returned, the table has an entry   *)
(* for every element e of the topology and every slot n, equal to a       *)
(* direct call of element_node_index(e, n), whatever the order of lanes.  *)
C4_TableRoundTrip ==
    kernel.state = "returned" =>
        \A e \in Elements(kernel.topo), n \in Slots(kernel.topo) :
            /\ e \in DOMAIN kernel.array
            /\ n \in DOMAIN kernel.array[e]
            /\ kernel.array[e][n] = DirectCall(kernel.topo, e, n)

(* C10: for a trace over a parent with n nodes per element, every side s  *)
(* and slot in [0, 2n): inner_cell_index is (inner cell, slot) when       *)
(* slot < n and (inner cell, -1) otherwise; outer_cell_index is (outer    *)
(* cell, slot - n), negative when slot < n; neighbor_cell_index is        *)
(* inner_cell_index when slot < n and outer_cell_index otherwise, with a  *)
(* local index in [0, n).                                                 *)
C10_CellResolution ==
    \A tr \in Traces : \A s \in Elements(tr), slot \in Slots(tr) :
        LET n == heap[Parent(tr)].NODES_PER_ELEMENT
            args == SideArgValue(heap[tr]._geometry)
            i == side_inner_cell_index(args, s)
            o == side_outer_cell_index(args, s)
            nb == neighbor_cell_index(tr, args, s, slot)
        IN  /\ inner_cell_index(tr, args, s, slot) = IF slot < n THEN <<i, slot>> ELSE <<i, -1>>
            /\ outer_cell_index(tr, args, s, slot) = <<o, slot - n>>
            /\ slot < n => outer_cell_index(tr, args, s, slot)[2] < 0
            /\ nb = IF slot < n THEN inner_cell_index(tr, args, s, slot)
                                ELSE outer_cell_index(tr, args, s, slot)
            /\ nb[2] >= 0 /\ nb[2] < n

(* A side between two different cells of a trace with 4 slots: slot 3 is  *)
(* "not inner" and the outer cell's local node 1.                         *)
C10_Witness ==
    \E tr \in Traces : \E s \in Elements(tr) :
        LET args == SideArgValue(heap[tr]._geometry)
        IN  /\ heap[tr].NODES_PER_ELEMENT = 4
            /\ side_inner_cell_index(args, s) # side_outer_cell_index(args, s)
            /\ inner_cell_index(tr, args, s, 3)[2] = -1
            /\ outer_cell_index(tr, args, s, 3)[2] = 1
            /\ outer_cell_index(tr, args, s, 0)[2] = -2
            /\ neighbor_cell_index(tr, args, s, 3) = <<side_outer_cell_index(args, s), 1>>

====
